---- MODULE Spec2Model ----
(***************************************************************************)
(* A model of the file-backed head store FileHeads<T>                      *)
(* (src/heads/fileheads/src/lib.rs).                                       *)
(*                                                                         *)
(* Strings (keys, file names) are sequences of bytes, a byte being a       *)
(* number 0..127 (ASCII).  The key codec (serde_urlencoded over            *)
(* UrlEncodeWrapper) is modelled byte by byte.  The file system is the     *)
(* kind of the base path and the set of entry names of the base directory. *)
(***************************************************************************)
EXTENDS Integers, Sequences, FiniteSets, TLC

\* ------------------------------------------------------------------ bounds

\* How many of KeyList's string keys the store's callers use.
NumKeys == 2
\* How many operation handles may exist at a time in the concurrent specification.
MaxHandles == 2
\* Worker threads of the execution pool.
PoolSize == 2
\* Longest key of the codec specification, and the bytes it is made of.
MaxKeyLen == 2

\* ------------------------------------------------------------------- codec

\* The bytes the model names.
Ch == [amp |-> 38, eq |-> 61, plus |-> 43, pct |-> 37, sp |-> 32]

\* static PREFIX = "head:"
PREFIX == <<104, 101, 97, 100, 58>>

\* The one field of UrlEncodeWrapper: "key".
KeyField == <<107, 101, 121>>

\* A key of type T: a string the url encoder takes, or a value of a shape it
\* refuses (serde_urlencoded serialises only primitive values of a pair).
StrKey(s) == [tag |-> "str", val |-> s]
BadKey == [tag |-> "unsupported", val |-> <<>>]

\* Results: Ok(v) and Err(kind).
Ok(v) == [ok |-> TRUE, v |-> v]
Err(kind) == [ok |-> FALSE, v |-> kind]

\* Bytes form_urlencoded's byte_serialize leaves as they are: * - . _ 0-9 A-Z a-z.
Unreserved == {42, 45, 46, 95} \cup (48..57) \cup (65..90) \cup (97..122)

\* The upper-case hex digit of a nibble.
HexDigit(n) == IF n < 10 THEN 48 + n ELSE 55 + n

\* form_urlencoded::byte_serialize of one byte.
ByteSerialize(b) ==
    IF b \in Unreserved THEN <<b>>
    ELSE IF b = Ch.sp THEN <<Ch.plus>>
    ELSE <<Ch.pct, HexDigit(b \div 16), HexDigit(b % 16)>>

RECURSIVE UrlEncode(_)
\* byte_serialize of a string.
UrlEncode(s) ==
    IF s = <<>> THEN <<>> ELSE ByteSerialize(Head(s)) \o UrlEncode(Tail(s))

\* Mutant: a value the encoder cannot write is written as the empty value.
to_stringLenient(key) ==
    Ok(UrlEncode(KeyField) \o <<Ch.eq>> \o UrlEncode(key.val))

\* serde_urlencoded::to_string(UrlEncodeWrapper::new(key)): "key=<value>".
to_string(key) ==
    IF key.tag = "str"
    THEN Ok(UrlEncode(KeyField) \o <<Ch.eq>> \o UrlEncode(key.val))
    ELSE Err("Ser")

\* The value of a hex digit, -1 when the byte is none.
HexVal(c) ==
    IF c \in 48..57 THEN c - 48
    ELSE IF c \in 65..70 THEN c - 55
    ELSE IF c \in 97..102 THEN c - 87
    ELSE -1

\* String::from_utf8_lossy of one byte: a byte that is not ASCII becomes U+FFFD.
Lossy(b) == IF b < 128 THEN b ELSE 65533

RECURSIVE PercentDecode(_)
\* replace_plus, percent_decode and decode_utf8_lossy of form_urlencoded::parse.
PercentDecode(s) ==
    IF s = <<>> THEN <<>>
    ELSE IF Head(s) = Ch.plus THEN <<Ch.sp>> \o PercentDecode(Tail(s))
    ELSE IF Head(s) = Ch.pct /\ Len(s) >= 3 /\ HexVal(s[2]) >= 0 /\ HexVal(s[3]) >= 0
         THEN <<Lossy(16 * HexVal(s[2]) + HexVal(s[3]))>>
              \o PercentDecode(SubSeq(s, 4, Len(s)))
    ELSE <<Head(s)>> \o PercentDecode(Tail(s))

\* The index of the first b in s, 0 when there is none.
IndexOf(s, b) ==
    IF \E i \in 1..Len(s) : s[i] = b
    THEN CHOOSE i \in 1..Len(s) : s[i] = b /\ \A j \in 1..(i - 1) : s[j] # b
    ELSE 0

\* One "name=value" piece split at its first '=' and decoded.
ParsePair(piece) ==
    LET i == IndexOf(piece, Ch.eq) IN
    IF i = 0 THEN <<PercentDecode(piece), <<>>>>
    ELSE <<PercentDecode(SubSeq(piece, 1, i - 1)),
           PercentDecode(SubSeq(piece, i + 1, Len(piece)))>>

RECURSIVE ParsePairs(_)
\* form_urlencoded::parse: the pieces between '&', the empty ones skipped.
ParsePairs(s) ==
    IF s = <<>> THEN <<>>
    ELSE LET i == IndexOf(s, Ch.amp)
             piece == IF i = 0 THEN s ELSE SubSeq(s, 1, i - 1)
             rest == IF i = 0 THEN <<>> ELSE SubSeq(s, i + 1, Len(s))
         IN  IF piece = <<>> THEN ParsePairs(rest)
             ELSE <<ParsePair(piece)>> \o ParsePairs(rest)

\* Mutant: the raw value is taken, not percent-decoded.
from_strRaw(s) ==
    LET i == IndexOf(s, Ch.eq) IN
    IF i = 0 THEN Err("De") ELSE Ok(StrKey(SubSeq(s, i + 1, Len(s))))

\* serde_urlencoded::from_str::<UrlEncodeWrapper<T>>(s).map(|w| w.key): the derived
\* visitor takes the pair named "key", ignores the others, and fails on a second
\* "key" (duplicate field) or on none (missing field).
from_str(s) ==
    LET pairs == ParsePairs(s)
        hits == {i \in 1..Len(pairs) : pairs[i][1] = KeyField}
    IN  IF Cardinality(hits) = 1
        THEN Ok(StrKey(pairs[CHOOSE i \in hits : TRUE][2]))
        ELSE Err("De")

\* Mutant: the filter of heads() lets every name through.
starts_withAny(name, prefix) == TRUE

\* name.starts_with(PREFIX)
starts_with(name, prefix) ==
    Len(name) >= Len(prefix) /\ SubSeq(name, 1, Len(prefix)) = prefix

\* Mutant: the prefix is left out of the file name.
get_pathNoPrefix(key) == to_string(key)

\* The file name get_path joins to the base: PREFIX + to_string(wrapper).
get_path(key) ==
    LET key_string == to_string(key) IN
    IF key_string.ok THEN Ok(PREFIX \o key_string.v) ELSE Err("Ser")

\* What heads() makes of one listed name that passed the prefix filter.
DecodeName(name) == from_str(SubSeq(name, Len(PREFIX) + 1, Len(name)))

\* ------------------------------------------------------------- the world

\* The string keys callers use ("a", "%", "a ", "+"), and the refused one.
KeyList == <<<<97>>, <<37>>, <<97, 32>>, <<43>>>>
GoodKeys == {StrKey(KeyList[i]) : i \in 1..NumKeys}
Keys == GoodKeys \cup {BadKey}

\* The marker file name of a key the encoder takes.
Marker(k) == get_path(k).v

\* Names another program may leave in the directory: "x" (no prefix) and
\* "head:j" (the prefix, and no pair named key after it).
ForeignNames == {<<120>>, PREFIX \o <<106>>}

\* Names without the prefix: "x", "head" and "Head:key=a".
Unprefixed == {<<120>>, <<104, 101, 97, 100>>,
               <<72, 101, 97, 100, 58, 107, 101, 121, 61, 97>>}

\* The two store instances a caller may hold over the one base path.
Stores == {1, 2}
Handles == 1..MaxHandles

VARIABLES
    baseKind,   \* what is at the base path: "absent", "dir" or "file"
    entries,    \* the names in the base directory
    store,      \* store[s]: "none" or "open" (a FileHeads value bound to the base path)
    hnd,        \* hnd[h]: the future an operation returned, and how far it is
    queue,      \* queue[s]: the tasks spawned on the pool of store s, oldest first
    strm,       \* the stream heads() returned: its ReadDir and how far it is; with the
                \* history of the directory since heads() was called: must, the names
                \* there throughout, and snaps, every set of names there was
    yielded,    \* the items the stream has yielded, in order
    ret,        \* the result the caller got last, with the directory before the call
    lastOp,     \* history: per key, the add or remove that completed last
    pristine,   \* history: no other program has touched the base path
    seen,       \* history: per store, what its queries returned since the directory last changed
    codec,      \* the codec specification: a key, its encoding, and that decoded
    sys         \* history: the file-system call the last step made, and the thread that made it

vars == <<baseKind, entries, store, hnd, queue, strm, yielded, ret, lastOp, pristine,
          seen, codec, sys>>
fsVars == <<baseKind, entries>>

\* A snapshot of the file system.
Fs == [kind |-> baseKind, names |-> entries]

NoFs == [kind |-> "absent", names |-> {}]
IdleHandle == [pc |-> "idle", store |-> 0, op |-> "none", key |-> BadKey,
               path |-> Err("none"), res |-> Err("none"), pre |-> NoFs, post |-> NoFs]
NoStream == [st |-> "none", src |-> "none", store |-> 0, buf |-> {}, fetched |-> {},
             must |-> {}, snaps |-> {}]
\* What a store's last query returned: the items of a heads() stream read to its
\* end, or the answer of is_head for a file name.
SeenNone == [q |-> "none", items |-> {}, name |-> <<>>, val |-> FALSE]
SeenHeads(items) == [SeenNone EXCEPT !.q = "heads", !.items = items]
SeenIsHead(name, val) == [SeenNone EXCEPT !.q = "is_head", !.name = name, !.val = val]
NoSeen == [s \in Stores |-> SeenNone]
NoCodec == [pc |-> "off", key |-> BadKey, enc |-> Err("none"), dec |-> Err("none")]
NoRet == [op |-> "none", store |-> 0, key |-> BadKey, res |-> Err("none"),
          pre |-> NoFs, post |-> NoFs]
\* A file-system call: which one, the thread it ran on ("caller": the thread that
\* called the operation; "poller": the thread that polls the stream; "worker": a
\* thread of the pool), and the handle it was for (0 for none).
NoSys == [call |-> "none", by |-> "none", h |-> 0]
SysCall(call, by, h) == [call |-> call, by |-> by, h |-> h]

Init ==
    /\ baseKind \in {"absent", "dir"}
    /\ entries = {}
    /\ store = [s \in Stores |-> "none"]
    /\ hnd = [h \in Handles |-> IdleHandle]
    /\ queue = [s \in Stores |-> <<>>]
    /\ strm = NoStream
    /\ yielded = <<>>
    /\ ret = NoRet
    /\ lastOp = [k \in GoodKeys |-> "none"]
    /\ pristine = TRUE
    /\ seen = NoSeen
    /\ codec = NoCodec
    /\ sys = NoSys

\* Nothing is in flight: no handle, no queued task, no open stream.
Quiet ==
    /\ \A h \in Handles : hnd[h].pc = "idle"
    /\ \A s \in Stores : queue[s] = <<>>
    /\ strm.st = "none"

\* ------------------------------------------------------------ file system

\* Path::is_dir
is_dir == baseKind = "dir"

\* Path::exists of base/name
exists(name) == baseKind = "dir" /\ name \in entries

\* File::create(base/name): the names afterwards and the io::Result.
FileCreate(name) ==
    IF baseKind = "dir" THEN [names |-> entries \cup {name}, res |-> Ok("unit")]
    ELSE IF baseKind = "absent" THEN [names |-> entries, res |-> Err("NotFound")]
    ELSE [names |-> entries, res |-> Err("Other")]

\* fs::remove_file(base/name): the names afterwards and the io::Result.
remove_file(name) ==
    IF baseKind = "dir" /\ name \in entries
    THEN [names |-> entries \ {name}, res |-> Ok("unit")]
    ELSE IF baseKind = "file" THEN [names |-> entries, res |-> Err("Other")]
    ELSE [names |-> entries, res |-> Err("NotFound")]

\* Mutant: a regular file in the way is replaced by a directory, and the call
\* fails all the same.
create_dir_allForce ==
    IF baseKind = "file" THEN [kind |-> "dir", res |-> Err("Other")]
    ELSE [kind |-> "dir", res |-> Ok("unit")]

\* fs::create_dir_all(base): the kind of the base path afterwards and the io::Result.
create_dir_all ==
    IF baseKind = "file" THEN [kind |-> "file", res |-> Err("Other")]
    ELSE [kind |-> "dir", res |-> Ok("unit")]

\* ----------------------------------------------------- open, create, drop

\* Mutant: the is_dir check is missing.
open_with_poolNoCheck(kind) == Ok("store")

\* open_with_pool on a base path of the given kind: bail!("... is not a directory")
\* unless path.is_dir().
open_with_pool(kind) == IF kind = "dir" THEN Ok("store") ELSE Err("Msg")

\* FileHeads::open(path)
Open(s) ==
    /\ store[s] = "none"
    /\ LET r == open_with_pool(baseKind) IN
       /\ store' = [store EXCEPT ![s] = IF r.ok THEN "open" ELSE "none"]
       /\ ret' = [NoRet EXCEPT !.op = "open", !.store = s, !.res = r,
                               !.pre = Fs, !.post = Fs]
    /\ sys' = SysCall("is_dir", "caller", 0)
    /\ UNCHANGED <<baseKind, entries, hnd, queue, strm, yielded, lastOp, pristine, seen, codec>>

\* FileHeads::create(path): fs::create_dir_all(path)?, then open_with_pool.
Create(s) ==
    /\ store[s] = "none"
    /\ LET made == create_dir_all
           r == IF made.res.ok THEN open_with_pool(made.kind) ELSE Err("Io")
       IN  /\ baseKind' = made.kind
           /\ store' = [store EXCEPT ![s] = IF r.ok THEN "open" ELSE "none"]
           /\ ret' = [NoRet EXCEPT !.op = "create", !.store = s, !.res = r, !.pre = Fs,
                                   !.post = [kind |-> made.kind, names |-> entries]]
           /\ seen' = IF made.kind = baseKind THEN seen ELSE NoSeen
    /\ sys' = SysCall("create_dir_all", "caller", 0)
    /\ UNCHANGED <<entries, hnd, queue, strm, yielded, lastOp, pristine, codec>>

\* The caller discards a FileHeads value.
Discard(s) ==
    /\ store[s] = "open"
    /\ store' = [store EXCEPT ![s] = "none"]
    /\ ret' = NoRet
    /\ sys' = NoSys
    /\ UNCHANGED <<baseKind, entries, hnd, queue, strm, yielded, lastOp, pristine, seen, codec>>

\* ------------------------------------------------- add, remove, is_head

Ops == {"add", "remove", "is_head"}

\* Mutant: the task is spawned when the operation is called.
CallEager(h, s, op, k) ==
    /\ hnd[h].pc = "idle"
    /\ store[s] = "open"
    /\ get_path(k).ok
    /\ hnd' = [hnd EXCEPT ![h] = [IdleHandle EXCEPT !.pc = "spawned", !.store = s,
                                                    !.op = op, !.key = k,
                                                    !.path = get_path(k)]]
    /\ queue' = [queue EXCEPT ![s] = Append(@, [h |-> h, op |-> op, name |-> get_path(k).v])]
    /\ ret' = NoRet
    /\ sys' = NoSys
    /\ UNCHANGED <<baseKind, entries, store, strm, yielded, lastOp, pristine, seen, codec>>

\* add, remove or is_head is called: get_path runs, and the future is built
\* (into_future().and_then(...).boxed()); nothing is spawned yet.
Call(h, s, op, k) ==
    /\ hnd[h].pc = "idle"
    /\ store[s] = "open"
    /\ hnd' = [hnd EXCEPT ![h] = [IdleHandle EXCEPT !.pc = "created", !.store = s,
                                                    !.op = op, !.key = k,
                                                    !.path = get_path(k)]]
    /\ ret' = NoRet
    /\ sys' = NoSys
    /\ UNCHANGED <<baseKind, entries, store, queue, strm, yielded, lastOp, pristine, seen, codec>>

\* The first poll of the future: an Err path resolves it; an Ok path runs the
\* and_then closure, which spawns the task on the pool.
Poll(h) ==
    /\ hnd[h].pc = "created"
    /\ IF hnd[h].path.ok
       THEN /\ queue' = [queue EXCEPT ![hnd[h].store] =
                            Append(@, [h |-> h, op |-> hnd[h].op, name |-> hnd[h].path.v])]
            /\ hnd' = [hnd EXCEPT ![h].pc = "spawned"]
       ELSE /\ hnd' = [hnd EXCEPT ![h].pc = "ready", ![h].res = Err("Ser"),
                                  ![h].pre = Fs, ![h].post = Fs]
            /\ UNCHANGED queue
    /\ ret' = NoRet
    /\ sys' = NoSys
    /\ UNCHANGED <<baseKind, entries, store, strm, yielded, lastOp, pristine, seen, codec>>

\* Mutant: the file is opened with create_new, which fails on an existing file.
AddTaskExcl(name) ==
    IF exists(name) THEN [names |-> entries, res |-> Err("Io")]
    ELSE [names |-> FileCreate(name).names,
          res |-> IF FileCreate(name).res.ok THEN Ok("unit") ELSE Err("Io")]

\* The task of add: File::create(&path)?; Ok(Async::Ready(())).
AddTask(name) ==
    LET r == FileCreate(name) IN
    [names |-> r.names, res |-> IF r.res.ok THEN Ok("unit") ELSE Err("Io")]

\* Mutant: remove reports success and deletes nothing.
RemoveTaskKeep(name) == [names |-> entries, res |-> Ok("unit")]

\* Mutant: remove deletes every entry of the directory.
RemoveTaskAll(name) ==
    [names |-> IF baseKind = "dir" THEN {} ELSE entries,
     res |-> IF baseKind = "file" THEN Err("Io") ELSE Ok("unit")]

\* Mutant: NotFound is reported like any other failure.
RemoveTaskStrict(name) ==
    LET r == remove_file(name) IN
    [names |-> r.names, res |-> IF r.res.ok THEN Ok("unit") ELSE Err("Io")]

\* The task of remove: fs::remove_file(&path), NotFound taken as Ok(()).
RemoveTask(name) ==
    LET r == remove_file(name) IN
    [names |-> r.names,
     res |-> IF r.res.ok \/ r.res.v = "NotFound" THEN Ok("unit") ELSE Err("Io")]

\* Mutant: fs::metadata(&path)? in place of path.exists(): a missing file is an error.
IsHeadTaskMeta(name) ==
    [names |-> entries, res |-> IF exists(name) THEN Ok(TRUE) ELSE Err("Io")]

\* The task of is_head: Ok(Async::Ready(path.exists())).
IsHeadTask(name) == [names |-> entries, res |-> Ok(exists(name))]

\* The one file-system call the task of an operation makes.
TaskCall(op) ==
    IF op = "add" THEN "File::create"
    ELSE IF op = "remove" THEN "remove_file"
    ELSE "exists"

\* The task a worker runs for an operation.
RunTask(op, name) ==
    IF op = "add" THEN AddTask(name)
    ELSE IF op = "remove" THEN RemoveTask(name)
    ELSE IsHeadTask(name)

\* The history of an open stream when the directory's names become `names`.
Watch(s, names) ==
    [s EXCEPT !.must = @ \cap names,
              !.snaps = IF s.st = "iter" THEN @ \cup {names} ELSE @]

\* The elements of a sequence.
Range(s) == {s[i] : i \in 1..Len(s)}

\* s without its i-th element.
RemoveAt(s, i) == SubSeq(s, 1, i - 1) \o SubSeq(s, i + 1, Len(s))

\* Mutant: the second store answers is_head from an index of its own, which is
\* empty, and not from the directory.
WorkerRunOwnIndex(s, i) ==
    /\ i \in 1..Len(queue[s])
    /\ i <= PoolSize
    /\ LET t == queue[s][i]
           r == IF s = 2 /\ t.op = "is_head"
                THEN [names |-> entries, res |-> Ok(FALSE)]
                ELSE RunTask(t.op, t.name)
       IN  /\ entries' = r.names
           /\ queue' = [queue EXCEPT ![s] = RemoveAt(@, i)]
           /\ hnd' = IF t.h = 0 THEN hnd
                     ELSE [hnd EXCEPT ![t.h].pc = "ready", ![t.h].res = r.res,
                                      ![t.h].pre = Fs,
                                      ![t.h].post = [kind |-> baseKind, names |-> r.names]]
           /\ strm' = Watch(strm, r.names)
           /\ seen' = IF r.names # entries THEN NoSeen
                      ELSE IF t.op = "is_head" /\ t.h # 0
                      THEN [seen EXCEPT ![s] = SeenIsHead(t.name, r.res.v)]
                      ELSE seen
           /\ sys' = SysCall(TaskCall(t.op), "worker", t.h)
    /\ ret' = NoRet
    /\ UNCHANGED <<baseKind, store, yielded, lastOp, pristine, codec>>

\* Mutant: the pool runs its tasks one at a time, oldest first.
WorkerRunFifo(s, i) ==
    /\ i = 1
    /\ Len(queue[s]) >= 1
    /\ LET t == queue[s][1]
           r == RunTask(t.op, t.name)
       IN  /\ entries' = r.names
           /\ queue' = [queue EXCEPT ![s] = Tail(@)]
           /\ hnd' = IF t.h = 0 THEN hnd
                     ELSE [hnd EXCEPT ![t.h].pc = "ready", ![t.h].res = r.res,
                                      ![t.h].pre = Fs,
                                      ![t.h].post = [kind |-> baseKind, names |-> r.names]]
           /\ strm' = Watch(strm, r.names)
           /\ seen' = IF r.names # entries THEN NoSeen
                      ELSE IF t.op = "is_head" /\ t.h # 0
                      THEN [seen EXCEPT ![s] = SeenIsHead(t.name, r.res.v)]
                      ELSE seen
           /\ sys' = SysCall(TaskCall(t.op), "worker", t.h)
    /\ ret' = NoRet
    /\ UNCHANGED <<baseKind, store, yielded, lastOp, pristine, codec>>

\* Mutant: the worker runs the task and sends its result to no one.
WorkerRunNoReply(s, i) ==
    /\ i \in 1..Len(queue[s])
    /\ i <= PoolSize
    /\ LET t == queue[s][i]
           r == RunTask(t.op, t.name)
       IN  /\ entries' = r.names
           /\ queue' = [queue EXCEPT ![s] = RemoveAt(@, i)]
           /\ strm' = Watch(strm, r.names)
           /\ seen' = IF r.names # entries THEN NoSeen ELSE seen
           /\ sys' = SysCall(TaskCall(t.op), "worker", t.h)
    /\ ret' = NoRet
    /\ UNCHANGED <<baseKind, store, hnd, yielded, lastOp, pristine, codec>>

\* A worker of the pool of store s runs one of the oldest PoolSize tasks: its
\* one system call, and the result sent to the future if it still exists.
WorkerRun(s, i) ==
    /\ i \in 1..Len(queue[s])
    /\ i <= PoolSize
    /\ LET t == queue[s][i]
           r == RunTask(t.op, t.name)
       IN  /\ entries' = r.names
           /\ queue' = [queue EXCEPT ![s] = RemoveAt(@, i)]
           /\ hnd' = IF t.h = 0 THEN hnd
                     ELSE [hnd EXCEPT ![t.h].pc = "ready", ![t.h].res = r.res,
                                      ![t.h].pre = Fs,
                                      ![t.h].post = [kind |-> baseKind, names |-> r.names]]
           /\ strm' = Watch(strm, r.names)
           /\ seen' = IF r.names # entries THEN NoSeen
                      ELSE IF t.op = "is_head" /\ t.h # 0
                      THEN [seen EXCEPT ![s] = SeenIsHead(t.name, r.res.v)]
                      ELSE seen
           /\ sys' = SysCall(TaskCall(t.op), "worker", t.h)
    /\ ret' = NoRet
    /\ UNCHANGED <<baseKind, store, yielded, lastOp, pristine, codec>>

\* The waiting caller gets the result of the future.
Complete(h) ==
    /\ hnd[h].pc = "ready"
    /\ ret' = [op |-> hnd[h].op, store |-> hnd[h].store, key |-> hnd[h].key,
               res |-> hnd[h].res, pre |-> hnd[h].pre, post |-> hnd[h].post]
    /\ hnd' = [hnd EXCEPT ![h] = IdleHandle]
    /\ lastOp' = IF pristine /\ hnd[h].res.ok /\ hnd[h].op \in {"add", "remove"}
                 THEN [lastOp EXCEPT ![hnd[h].key] = hnd[h].op]
                 ELSE lastOp
    /\ sys' = NoSys
    /\ UNCHANGED <<baseKind, entries, store, queue, strm, yielded, pristine, seen, codec>>

\* Mutant: a future that is dropped takes its task with it, always.
DropTaskCancels(q, h, started) == SelectSeq(q, LAMBDA t : t.h # h)

\* What becomes of the task of a dropped future (the CpuFuture pool.spawn
\* returned): a task no worker has started is cancelled; one a worker has started
\* runs on, with no one to send its result to.
DropTask(q, h, started) ==
    IF started THEN [i \in 1..Len(q) |-> IF q[i].h = h THEN [q[i] EXCEPT !.h = 0] ELSE q[i]]
    ELSE SelectSeq(q, LAMBDA t : t.h # h)

\* The caller drops the future of an operation without waiting for it: before its
\* first poll, with its task spawned, or resolved.  Whether a worker has started a
\* spawned task by then is the scheduler's choice.  (One task at a time runs
\* without its future.)
Drop(h) ==
    /\ hnd[h].pc # "idle"
    /\ \E started \in BOOLEAN :
          /\ started => /\ hnd[h].pc = "spawned"
                        /\ \A s \in Stores : \A i \in 1..Len(queue[s]) : queue[s][i].h # 0
          /\ queue' = [s \in Stores |-> DropTask(queue[s], h, started)]
    /\ hnd' = [hnd EXCEPT ![h] = IdleHandle]
    /\ ret' = NoRet
    /\ sys' = NoSys
    /\ UNCHANGED <<baseKind, entries, store, strm, yielded, lastOp, pristine, seen, codec>>

\* ------------------------------------------------------------------ heads

\* fs::read_dir(base): Ok with the names that are there now, or Err.
read_dir == IF is_dir THEN Ok(entries) ELSE Err("Io")

\* Mutant: a failed listing gives an empty stream.
HeadsStreamEmpty(names) ==
    [NoStream EXCEPT !.st = "iter", !.src = "iter",
                     !.must = IF names.ok THEN names.v ELSE {},
                     !.snaps = IF names.ok THEN {names.v} ELSE {}]

\* Mutant: the listing may end before it has returned every name.
HeadsStreamPartial(names) ==
    IF names.ok THEN [NoStream EXCEPT !.st = "iter", !.src = "iter", !.snaps = {names.v}]
    ELSE [NoStream EXCEPT !.st = "once", !.src = "once"]

\* match names { Ok(v) => stream::iter(v).boxed(),
\*               Err(e) => stream::once(Err(e.into())).boxed() }
HeadsStream(names) ==
    IF names.ok THEN [NoStream EXCEPT !.st = "iter", !.src = "iter", !.must = names.v,
                                      !.snaps = {names.v}]
    ELSE [NoStream EXCEPT !.st = "once", !.src = "once"]

\* heads() is called: fs::read_dir(&self.base) runs at once, in the caller.  Ok
\* gives stream::iter over the mapped and filtered ReadDir, Err gives
\* stream::once(Err(e)).
HeadsCall(s) ==
    /\ strm.st = "none"
    /\ store[s] = "open"
    /\ strm' = [HeadsStream(read_dir) EXCEPT !.store = s]
    /\ yielded' = <<>>
    /\ ret' = NoRet
    /\ sys' = SysCall("read_dir", "caller", 0)
    /\ UNCHANGED <<baseKind, entries, store, hnd, queue, lastOp, pristine, seen, codec>>

\* An item of the stream: a key, or an error.
OkItem(k) == [ok |-> TRUE, key |-> k, err |-> "none"]
ErrItem(e) == [ok |-> FALSE, key |-> BadKey, err |-> e]
Item(d) == IF d.ok THEN OkItem(d.v) ELSE ErrItem(d.v)

\* Mutant: the stream ends at the first name that fails to decode.
DeliverAbort(name) ==
    IF ~starts_with(name, PREFIX) THEN [items |-> <<>>, st |-> "iter"]
    ELSE LET d == DecodeName(name) IN
         [items |-> <<Item(d)>>, st |-> IF d.ok THEN "iter" ELSE "spent"]

\* What the iterator chain makes of one name ReadDir returned: the filter drops a
\* name without the prefix; the map decodes the rest of a name with it into
\* Ok(key) or Err.  stream::iter hands either on and goes on with the iterator.
Deliver(name) ==
    IF ~starts_with(name, PREFIX) THEN [items |-> <<>>, st |-> "iter"]
    ELSE [items |-> <<Item(DecodeName(name))>>, st |-> "iter"]

\* One step of the iterator under stream::iter: ReadDir::next gives a name it has
\* buffered, or reads on.  A read returns names it has not returned yet (which of
\* those added since read_dir is the file system's choice) and returns none, the
\* end, only when every name that was there throughout has been returned.
HeadsNext ==
    /\ strm.st = "iter"
    /\ \/ \E n \in strm.buf :
            LET d == Deliver(n) IN
            /\ strm' = [strm EXCEPT !.buf = @ \ {n}, !.st = d.st]
            /\ yielded' = yielded \o d.items
            /\ sys' = NoSys
       \/ /\ strm.buf = {}
          /\ \E S \in (SUBSET (entries \ strm.fetched)) \ {{}} : \E n \in S :
                LET d == Deliver(n) IN
                /\ strm' = [strm EXCEPT !.buf = S \ {n}, !.fetched = @ \cup S,
                                        !.st = d.st]
                /\ yielded' = yielded \o d.items
                /\ sys' = SysCall("readdir", "poller", 0)
       \/ /\ strm.buf = {}
          /\ strm.must \subseteq strm.fetched
          /\ strm' = [strm EXCEPT !.st = "end"]
          /\ yielded' = yielded
          /\ sys' = SysCall("readdir", "poller", 0)
    /\ seen' = IF strm'.st = "end"
               THEN [seen EXCEPT ![strm.store] = SeenHeads(Range(yielded))]
               ELSE seen
    /\ ret' = NoRet
    /\ UNCHANGED <<baseKind, entries, store, hnd, queue, lastOp, pristine, codec>>

\* stream::once: the first poll yields the error of read_dir.
HeadsOnce ==
    /\ strm.st = "once"
    /\ strm' = [strm EXCEPT !.st = "spent"]
    /\ yielded' = Append(yielded, ErrItem("Io"))
    /\ ret' = NoRet
    /\ sys' = NoSys
    /\ UNCHANGED <<baseKind, entries, store, hnd, queue, lastOp, pristine, seen, codec>>

\* stream::once, polled again: the end of the stream.
HeadsEnd ==
    /\ strm.st = "spent"
    /\ strm' = [strm EXCEPT !.st = "end"]
    /\ seen' = [seen EXCEPT ![strm.store] = SeenHeads(Range(yielded))]
    /\ ret' = NoRet
    /\ sys' = NoSys
    /\ UNCHANGED <<baseKind, entries, store, hnd, queue, yielded, lastOp, pristine,
                   codec>>

\* The caller drops the stream: at its end, or earlier (collect() drops it at the
\* first Err).
HeadsDrop ==
    /\ strm.st # "none"
    /\ strm' = NoStream
    /\ yielded' = <<>>
    /\ ret' = NoRet
    /\ sys' = NoSys
    /\ UNCHANGED <<baseKind, entries, store, hnd, queue, lastOp, pristine, seen, codec>>

\* ------------------------------------------------------- other programs

\* Another program creates a file in the base directory.
ExtCreate(n) ==
    /\ baseKind = "dir"
    /\ n \notin entries
    /\ entries' = entries \cup {n}
    /\ pristine' = FALSE
    /\ lastOp' = [k \in GoodKeys |-> "none"]
    /\ ret' = NoRet
    /\ seen' = NoSeen
    /\ sys' = NoSys
    /\ UNCHANGED <<baseKind, store, hnd, queue, strm, yielded, codec>>

\* Another program removes the base path with all it holds.
ExtRemoveBase ==
    /\ baseKind # "absent"
    /\ baseKind' = "absent"
    /\ entries' = {}
    /\ pristine' = FALSE
    /\ lastOp' = [k \in GoodKeys |-> "none"]
    /\ ret' = NoRet
    /\ seen' = NoSeen
    /\ sys' = NoSys
    /\ UNCHANGED <<store, hnd, queue, strm, yielded, codec>>

\* Another program puts a regular file at the base path.
ExtMakeFile ==
    /\ baseKind = "absent"
    /\ baseKind' = "file"
    /\ pristine' = FALSE
    /\ lastOp' = [k \in GoodKeys |-> "none"]
    /\ ret' = NoRet
    /\ seen' = NoSeen
    /\ sys' = NoSys
    /\ UNCHANGED <<entries, store, hnd, queue, strm, yielded, codec>>

\* --------------------------------------------------------- specifications

\* One caller, one operation at a time, each awaited before the next is issued;
\* other programs act between operations.
Next ==
    \/ \E s \in Stores : Quiet /\ Open(s)
    \/ \E s \in Stores : Quiet /\ Create(s)
    \/ \E s \in Stores : Quiet /\ Discard(s)
    \/ \E s \in Stores, op \in Ops, k \in Keys : Quiet /\ Call(1, s, op, k)
    \/ Poll(1)
    \/ \E s \in Stores : WorkerRun(s, 1)
    \/ Complete(1)
    \/ \E s \in Stores : Quiet /\ HeadsCall(s)
    \/ HeadsNext
    \/ HeadsOnce
    \/ HeadsEnd
    \/ HeadsDrop
    \/ \E n \in ForeignNames : Quiet /\ ExtCreate(n)
    \/ Quiet /\ ExtRemoveBase
    \/ Quiet /\ ExtMakeFile

Spec == Init /\ [][Next]_vars

\* ------------------------------------------------ concurrent operations

\* The key the concurrent operations are about ("a"), and a key that is none of
\* theirs ("%").
RaceKey == StrKey(KeyList[1])
OtherKey == StrKey(KeyList[2])

\* A store open over a directory that holds one of the given sets of names.
\* (lastOp and pristine are the history of the sequential specification; pristine
\* starts FALSE here, which keeps them still.)
InitOpen(nameSets) ==
    /\ baseKind = "dir"
    /\ entries \in nameSets
    /\ store = [s \in Stores |-> IF s = 1 THEN "open" ELSE "none"]
    /\ hnd = [h \in Handles |-> IdleHandle]
    /\ queue = [s \in Stores |-> <<>>]
    /\ strm = NoStream
    /\ yielded = <<>>
    /\ ret = NoRet
    /\ lastOp = [k \in GoodKeys |-> "none"]
    /\ pristine = FALSE
    /\ seen = NoSeen
    /\ codec = NoCodec
    /\ sys = NoSys

\* A store open over a directory, with the other key stored or not, that only this
\* store's operations change.
InitRace == InitOpen(SUBSET {Marker(OtherKey)})

\* The caller issues operations on one key on every handle without waiting for the others;
\* the workers of the pool take the oldest PoolSize tasks in any order; handle 1
\* is always awaited, the others may be dropped.
NextRace ==
    \/ \E h \in Handles, op \in Ops : Call(h, 1, op, RaceKey)
    \/ \E h \in Handles : Poll(h)
    \/ \E i \in 1..PoolSize : WorkerRun(1, i)
    \/ \E h \in Handles : Complete(h)
    \/ \E h \in Handles \ {1} : Drop(h)

SpecRace == InitRace /\ [][NextRace]_vars

\* A store open over an empty directory.
InitLive == InitOpen({{}})

\* The caller issues add and remove, of the key and of the key the encoder
\* refuses, on every handle without waiting for the others, and awaits them all.
NextLive ==
    \/ \E h \in Handles, op \in {"add", "remove"}, k \in {RaceKey, BadKey} :
           Call(h, 1, op, k)
    \/ \E h \in Handles : Poll(h)
    \/ \E i \in 1..PoolSize : WorkerRun(1, i)
    \/ \E h \in Handles : Complete(h)

\* The caller polls and takes the result of every future, and the pool takes the
\* oldest task it holds (which a pool of any size, of one worker too, does).
FairLive ==
    /\ \A h \in Handles : WF_vars(Poll(h)) /\ WF_vars(Complete(h))
    /\ WF_vars(WorkerRun(1, 1))

SpecLive == InitLive /\ [][NextLive]_vars /\ FairLive

\* ------------------------------------- heads() beside add and remove

\* A store open over a directory that holds any of the two keys' markers.
InitSnap == InitOpen(SUBSET {Marker(RaceKey), Marker(OtherKey)})

\* The caller reads heads() while it issues add and remove of the two keys, one
\* at a time, on handle 1.
NextSnap ==
    \/ \E op \in {"add", "remove"}, k \in {RaceKey, OtherKey} : Call(1, 1, op, k)
    \/ Poll(1)
    \/ WorkerRun(1, 1)
    \/ Complete(1)
    \/ HeadsCall(1)
    \/ HeadsNext
    \/ HeadsDrop

SpecSnap == InitSnap /\ [][NextSnap]_vars

\* ------------------------------------------- entries without the prefix

\* A store open over a directory that holds any of the keys' markers and any of
\* the names without the prefix.
InitForeign == InitOpen(SUBSET ({Marker(k) : k \in GoodKeys} \cup Unprefixed))

\* The caller reads heads() and asks is_head, one at a time.
NextForeign ==
    \/ \E k \in GoodKeys : Quiet /\ Call(1, 1, "is_head", k)
    \/ Poll(1)
    \/ WorkerRun(1, 1)
    \/ Complete(1)
    \/ Quiet /\ HeadsCall(1)
    \/ HeadsNext
    \/ HeadsDrop

SpecForeign == InitForeign /\ [][NextForeign]_vars

\* ------------------------------------------------------- the codec alone

\* The bytes of the keys of the codec specification: a % sp + & = 2
CodecBytes == {97, 37, 32, 43, 38, 61, 50}
CodecStrings == UNION {[1..n -> CodecBytes] : n \in 0..MaxKeyLen}
CodecKeys == {StrKey(s) : s \in CodecStrings} \cup {BadKey}

InitCodec ==
    /\ baseKind = "dir"
    /\ entries = {}
    /\ store = [s \in Stores |-> "none"]
    /\ hnd = [h \in Handles |-> IdleHandle]
    /\ queue = [s \in Stores |-> <<>>]
    /\ strm = NoStream
    /\ yielded = <<>>
    /\ ret = NoRet
    /\ lastOp = [k \in GoodKeys |-> "none"]
    /\ pristine = TRUE
    /\ seen = NoSeen
    /\ sys = NoSys
    /\ \E k \in CodecKeys : codec = [NoCodec EXCEPT !.pc = "key", !.key = k]

storeVars == <<baseKind, entries, store, hnd, queue, strm, yielded, ret, lastOp, pristine,
               seen, sys>>

\* get_path(key): the file name add, remove and is_head work on.
Encode ==
    /\ codec.pc = "key"
    /\ LET p == get_path(codec.key) IN
       codec' = [codec EXCEPT !.pc = IF p.ok THEN "encoded" ELSE "rejected", !.enc = p]
    /\ UNCHANGED storeVars

\* heads() on that file name: the prefix filter, then the decoding.
Decode ==
    /\ codec.pc = "encoded"
    /\ codec' = [codec EXCEPT
                    !.pc = IF starts_with(codec.enc.v, PREFIX) THEN "decoded" ELSE "skipped",
                    !.dec = DecodeName(codec.enc.v)]
    /\ UNCHANGED storeVars

NextCodec == Encode \/ Decode

SpecCodec == InitCodec /\ [][NextCodec]_vars

\* ----------------------------------------------------------------- claims

\* The marker file name the specification gives a key: "head:" and the encoded key.
MarkerName(k) == PREFIX \o to_string(k).v

\* The keys among the items a stream has yielded.
YieldedKeys == {yielded[i].key : i \in {j \in 1..Len(yielded) : yielded[j].ok}}

\* How often a stream has yielded an item.
Times(item) == Cardinality({i \in 1..Len(yielded) : yielded[i] = item})

\* C1: from an empty store directory that only the store writes to, with every add
\* and remove awaited before the next operation, is_head(k) answers true exactly
\* for the keys whose last completed operation was add, and heads(), read to its
\* end, yields exactly those keys and no error.
C1_Membership ==
    pristine =>
        /\ (ret.op = "is_head" /\ ret.key \in GoodKeys) =>
               (ret.res.ok /\ (ret.res.v <=> lastOp[ret.key] = "add"))
        /\ strm.st = "end" =>
               /\ \A i \in 1..Len(yielded) : yielded[i].ok
               /\ YieldedKeys = {k \in GoodKeys : lastOp[k] = "add"}

\* C1's case: a key added, another added and then removed, and heads() read to
\* its end.
C1_Witness ==
    /\ pristine
    /\ strm.st = "end"
    /\ Len(yielded) = 1
    /\ \E k1, k2 \in GoodKeys : lastOp[k1] = "add" /\ lastOp[k2] = "remove"

\* C2: in a directory only the store has written to, with no operation in flight,
\* heads() yields k if and only if is_head(k) is true, and both if and only if the
\* file "head:" + encode(k) exists; every prefixed file is the marker of exactly one
\* key, and distinct stored keys have distinct marker files.
C2_QueriesAgree ==
    pristine =>
        /\ strm.st = "end" =>
               \A k \in GoodKeys : (k \in YieldedKeys) <=> (MarkerName(k) \in entries)
        /\ (ret.op = "is_head" /\ ret.key \in GoodKeys) =>
               (ret.res.ok /\ (ret.res.v <=> MarkerName(ret.key) \in entries))
        /\ \A s1, s2 \in Stores :
               (seen[s1].q = "heads" /\ seen[s2].q = "is_head") =>
                   (seen[s2].val <=>
                        \E k \in GoodKeys : /\ MarkerName(k) = seen[s2].name
                                            /\ OkItem(k) \in seen[s1].items)
        /\ \A n \in entries :
               starts_with(n, PREFIX) =>
                   Cardinality({k \in GoodKeys : MarkerName(k) = n}) = 1
        /\ \A k1, k2 \in GoodKeys :
               (MarkerName(k1) \in entries /\ MarkerName(k2) \in entries /\ k1 # k2)
                   => MarkerName(k1) # MarkerName(k2)

\* C2's case: two keys stored, heads() read to its end and is_head answered true,
\* with nothing in flight.
C2_Witness ==
    /\ pristine
    /\ Quiet
    /\ \E s1, s2 \in Stores :
           seen[s1].q = "heads" /\ seen[s2].q = "is_head" /\ seen[s2].val
    /\ Cardinality(entries) >= 2

C4_RemoveMissing ==
    (ret.op = "remove" /\ ret.key \in GoodKeys) =>
        /\ (ret.pre.kind # "file" /\ MarkerName(ret.key) \notin ret.pre.names) =>
               (ret.res.ok /\ ret.post = ret.pre /\ Fs = ret.pre)
        /\ ret.pre.kind = "file" =>
               (~ret.res.ok /\ ret.res.v = "Io" /\ ret.post = ret.pre)

\* C4's case: remove(k) has completed in a directory that holds another marker
\* and none of k.
C4_Witness ==
    /\ ret.op = "remove"
    /\ ret.key \in GoodKeys
    /\ ret.pre.kind = "dir"
    /\ ret.pre.names # {}
    /\ MarkerName(ret.key) \notin ret.pre.names
    /\ ret.res.ok

\* C5: the store keeps no state: on the same directory contents two store
\* instances, one of them maybe discarded since, get the same keys and errors from
\* heads() and the same answer from is_head(k).
C5_Stateless ==
    \A s1, s2 \in Stores :
        /\ (seen[s1].q = "heads" /\ seen[s2].q = "heads") =>
               seen[s1].items = seen[s2].items
        /\ (seen[s1].q = "is_head" /\ seen[s2].q = "is_head"
                /\ seen[s1].name = seen[s2].name) =>
               seen[s1].val = seen[s2].val

\* C5's case: a store instance read heads() and was discarded; a second instance
\* over the same directory read heads() too, and there were heads to read.
C5_Witness ==
    /\ store[1] = "none"
    /\ store[2] = "open"
    /\ seen[1].q = "heads"
    /\ seen[2].q = "heads"
    /\ \E it \in seen[2].items : it.ok

\* C6: open fails, and changes nothing on disk, exactly when the path is no
\* directory; create on a path that does not exist makes the directory and gives a
\* store whose heads() is empty; create on an existing store directory keeps what
\* is stored there.
C6_OpenCreate ==
    /\ ret.op = "open" =>
           /\ ret.res.ok <=> ret.pre.kind = "dir"
           /\ ~ret.res.ok => ret.res.v = "Msg"
           /\ ret.post = ret.pre
           /\ Fs = ret.pre
           /\ ret.res.ok <=> store[ret.store] = "open"
    /\ (ret.op = "create" /\ ret.pre.kind = "absent") =>
           /\ ret.res.ok
           /\ store[ret.store] = "open"
           /\ Fs = [kind |-> "dir", names |-> {}]
    /\ (ret.op = "create" /\ ret.pre.kind = "dir") =>
           /\ ret.res.ok
           /\ store[ret.store] = "open"
           /\ Fs = ret.pre
    /\ (strm.st = "end" /\ baseKind = "dir" /\ entries = {}) => yielded = <<>>

\* C6's case: create has run on a path that did not exist.
C6_Witness ==
    /\ ret.op = "create"
    /\ ret.pre.kind = "absent"
    /\ ret.res.ok
    /\ baseKind = "dir"

\* C7: for every key the encoder takes, the file name of get_path is "head:",
\* then "key=", then the percent-encoded value, it passes the prefix filter of
\* heads(), and decoding what follows the prefix gives the key back.
C7_RoundTrip ==
    codec.pc \in {"decoded", "skipped"} =>
        /\ codec.pc = "decoded"
        /\ SubSeq(codec.enc.v, 1, 9) = PREFIX \o KeyField \o <<Ch.eq>>
        /\ \A i \in 10..Len(codec.enc.v) :
               codec.enc.v[i] \in Unreserved \cup {Ch.plus, Ch.pct}
        /\ codec.dec.ok
        /\ codec.dec.v = codec.key

\* C7's case: a key with a '%' and a space in it has been encoded and decoded.
C7_Witness ==
    /\ codec.pc = "decoded"
    /\ Ch.pct \in Range(codec.key.val)
    /\ Ch.sp \in Range(codec.key.val)

C9_ListingFails ==
    /\ strm.st # "none" => (strm.src = "once" <=> baseKind # "dir")
    /\ strm.src = "once" =>
           /\ strm.st \in {"once", "spent", "end"}
           /\ strm.st = "once" => yielded = <<>>
           /\ strm.st \in {"spent", "end"} => yielded = <<ErrItem("Io")>>

\* C9's case: the base directory is gone, and heads() has been read to its end.
C9_Witness ==
    /\ baseKind = "absent"
    /\ strm.src = "once"
    /\ strm.st = "end"

\* C10: is_head(k) of a key the encoder takes never fails, whatever is at the base
\* path: it answers true exactly when the marker path exists, and it leaves the
\* directory as it was.
C10_IsHeadNeverFails ==
    (ret.op = "is_head" /\ ret.key \in GoodKeys) =>
        /\ ret.res.ok
        /\ ret.res.v <=> (ret.pre.kind = "dir" /\ MarkerName(ret.key) \in ret.pre.names)
        /\ ret.post = ret.pre
        /\ Fs = ret.pre

\* C10's case: is_head has answered while the base directory is missing.
C10_Witness ==
    /\ ret.op = "is_head"
    /\ ret.key \in GoodKeys
    /\ ret.pre.kind = "absent"
    /\ ret.res.ok

\* The file-system calls the four operations of the store make.
StoreCalls == {"File::create", "remove_file", "exists", "read_dir", "readdir"}

\* C11 as stated: every file-system call of add, remove, is_head and heads runs on
\* a worker of the pool, never on the thread that called the operation.
C11_AllOnWorkers ==
    sys.call \in StoreCalls => sys.by = "worker"

\* C12: an operation that fails leaves the file system, the store value and what
\* the store's queries answer as they were: the step in which open, create, add,
\* remove or is_head fails changes none of them and leaves nothing in flight, the
\* caller gets the error with the directory as it was before the call, and the step
\* in which heads() yields an error changes none of them either.
C12_FailureKeepsStore ==
    /\ [](/\ (ret.op # "none" /\ ~ret.res.ok) =>
                 /\ ret.post = ret.pre
                 /\ Fs = ret.pre
                 /\ Quiet
                 /\ store[ret.store] = (IF ret.op \in Ops THEN "open" ELSE "none")
          /\ \A h \in Handles :
                 (hnd[h].pc = "ready" /\ ~hnd[h].res.ok) =>
                     (hnd[h].post = hnd[h].pre /\ Fs = hnd[h].pre))
    /\ [][/\ (\E h \in Handles :
                 hnd'[h].pc = "ready" /\ hnd[h].pc # "ready" /\ ~hnd'[h].res.ok) =>
                 (/\ UNCHANGED <<baseKind, entries, store, seen>>
                  /\ \A s \in Stores : Len(queue'[s]) <= Len(queue[s]))
          /\ (ret'.op \in {"open", "create"} /\ ~ret'.res.ok) =>
                 UNCHANGED <<baseKind, entries, store, seen, hnd, queue>>
          /\ (Len(yielded') > Len(yielded) /\ ~yielded'[Len(yielded')].ok) =>
                 UNCHANGED <<baseKind, entries, store, seen, hnd, queue>>]_vars

\* C12's case: remove(k) has failed with an I/O error (a regular file is at the
\* base path), and the store value is still there.
C12_Witness ==
    /\ ret.op = "remove"
    /\ ~ret.res.ok
    /\ ret.res.v = "Io"
    /\ store[ret.store] = "open"

\* C15: add, remove and is_head of a key the encoder refuses complete with the
\* encoding error; their future never spawns a task, no step taken while it exists
\* makes a file-system call or changes the directory, and the caller gets the error
\* with the directory as it was.
C15_RejectedKey ==
    /\ [](/\ (ret.op \in Ops /\ ret.key = BadKey) =>
                 /\ ~ret.res.ok
                 /\ ret.res.v = "Ser"
                 /\ ret.post = ret.pre
                 /\ Fs = ret.pre
          /\ \A h \in Handles :
                 (hnd[h].pc # "idle" /\ hnd[h].key = BadKey) =>
                     /\ hnd[h].pc \in {"created", "ready"}
                     /\ hnd[h].pc = "ready" => hnd[h].res = Err("Ser")
                     /\ \A s \in Stores : \A i \in 1..Len(queue[s]) : queue[s][i].h # h)
    /\ [][(\E h \in Handles : hnd[h].pc # "idle" /\ hnd[h].key = BadKey) =>
              (UNCHANGED <<baseKind, entries, queue>> /\ sys' = NoSys)]_vars

\* C15's case: add of a refused key has completed on a directory that holds a head.
C15_Witness ==
    /\ ret.op = "add"
    /\ ret.key = BadKey
    /\ ~ret.res.ok
    /\ \E k \in GoodKeys : MarkerName(k) \in entries

\* The names of a set that start with "head:".
Prefixed(names) == {n \in names : Len(n) >= 5 /\ SubSeq(n, 1, 5) = PREFIX}

\* C16: heads(), read to its end, yields one item for each entry whose name starts
\* with "head:", the decoding of what follows the prefix, and nothing for any other
\* entry; is_head(k) answers by the prefixed entries alone.
C16_ForeignInvisible ==
    /\ (strm.st = "end" /\ strm.src = "iter") =>
           /\ Len(yielded) = Cardinality(Prefixed(entries))
           /\ Range(yielded) =
                  {Item(from_str(SubSeq(n, 6, Len(n)))) : n \in Prefixed(entries)}
    /\ (ret.op = "is_head" /\ ret.key \in GoodKeys) =>
           /\ ret.res.ok
           /\ ret.res.v <=> (ret.pre.kind = "dir"
                                /\ MarkerName(ret.key) \in Prefixed(ret.pre.names))

\* C16's case: heads() has been read to its end in a directory that holds the three
\* names without the prefix and the marker of a key, and has yielded that key alone.
C16_Witness ==
    /\ strm.st = "end"
    /\ entries \ Prefixed(entries) = Unprefixed
    /\ Len(yielded) = 1
    /\ yielded[1].ok

\* C18: the frame of the operations.  add(k) and remove(k) leave every entry but
\* the marker of k as it was, add deleting none and remove creating none; is_head
\* and heads change nothing; a step that changes the directory is the
\* File::create or remove_file of a task on its own marker, or create making the
\* base directory, or another program; no call of the store changes the entries
\* without the prefix.
C18_Frame ==
    /\ []((ret.op \in Ops /\ ret.key \in GoodKeys) =>
              /\ ret.post.kind = ret.pre.kind
              /\ ret.post.names \ {MarkerName(ret.key)}
                     = ret.pre.names \ {MarkerName(ret.key)}
              /\ ret.op = "add" => ret.pre.names \subseteq ret.post.names
              /\ ret.op = "remove" => ret.post.names \subseteq ret.pre.names
              /\ ret.op = "is_head" => ret.post = ret.pre)
    /\ [][/\ sys'.call \in {"exists", "read_dir", "readdir", "is_dir"} =>
                 UNCHANGED <<baseKind, entries>>
          /\ strm' # strm => UNCHANGED <<baseKind, entries>>
          /\ sys'.call # "none" =>
                 entries' \ Prefixed(entries') = entries \ Prefixed(entries)
          /\ (entries' # entries \/ baseKind' # baseKind) =>
                 \/ /\ sys'.call \in {"File::create", "remove_file"}
                    /\ sys'.by = "worker"
                    /\ baseKind' = baseKind
                    /\ \E s \in Stores : \E i \in 1..Len(queue[s]) :
                           /\ queue'[s] = RemoveAt(queue[s], i)
                           /\ TaskCall(queue[s][i].op) = sys'.call
                           /\ \E k \in GoodKeys : queue[s][i].name = MarkerName(k)
                           /\ entries' \ {queue[s][i].name} = entries \ {queue[s][i].name}
                 \/ /\ sys'.call = "create_dir_all"
                    /\ entries' = entries
                 \/ /\ sys'.call = "none"
                    /\ ~pristine']_vars

\* C18's case: remove(k) has deleted the marker of k in a directory that holds the
\* marker of another key and a name without the prefix, both still there.
C18_Witness ==
    /\ ret.op = "remove"
    /\ ret.res.ok
    /\ MarkerName(ret.key) \in ret.pre.names
    /\ MarkerName(ret.key) \notin entries
    /\ \E k \in GoodKeys : MarkerName(k) \in entries
    /\ <<120>> \in entries

\* C13: add(k) and remove(k) issued without waiting for each other both complete
\* with success; each File::create leaves k a head and each remove_file leaves it
\* none, and nothing else changes its membership, so the call that runs last
\* decides; when the tasks of both are with the pool either may run first; the
\* other key's marker is never touched.
C13_Race ==
    /\ [](/\ \A h \in Handles :
                 (hnd[h].pc = "ready" /\ hnd[h].op \in {"add", "remove"}) => hnd[h].res.ok
          /\ ret.op \in {"add", "remove"} => ret.res.ok
          /\ \A i, j \in 1..Len(queue[1]) :
                 (queue[1][i].op = "add" /\ queue[1][j].op = "remove"
                      /\ i <= PoolSize /\ j <= PoolSize) =>
                     (ENABLED WorkerRun(1, i) /\ ENABLED WorkerRun(1, j)))
    /\ [][/\ sys'.call = "File::create" => Marker(RaceKey) \in entries'
          /\ sys'.call = "remove_file" => Marker(RaceKey) \notin entries'
          /\ sys'.call \notin {"File::create", "remove_file"} => entries' = entries
          /\ (Marker(OtherKey) \in entries') = (Marker(OtherKey) \in entries)
          /\ baseKind' = baseKind]_vars

\* C13's case: add(k) and remove(k) were in flight together and both have
\* succeeded; the remove deleted the marker, the add, run after it, created it
\* again, and k is a head.
C13_Witness ==
    /\ \E h1, h2 \in Handles :
          /\ hnd[h1].pc = "ready" /\ hnd[h1].op = "add" /\ hnd[h1].res.ok
          /\ hnd[h2].pc = "ready" /\ hnd[h2].op = "remove" /\ hnd[h2].res.ok
          /\ Marker(RaceKey) \in hnd[h2].pre.names
          /\ hnd[h1].pre = hnd[h2].post
    /\ Marker(RaceKey) \in entries
    /\ sys.call = "File::create"

\* C17: with the caller polling its futures and the pool taking the oldest task,
\* every operation that was called is resolved, with success or with an error,
\* and its result taken, whatever else is pending; and at no time is everything
\* that is pending stuck.
C17_Completes ==
    /\ \A h \in Handles :
          /\ (hnd[h].pc \in {"created", "spawned"}) ~> (hnd[h].pc = "ready")
          /\ (hnd[h].pc = "ready") ~> (hnd[h].pc = "idle")
    /\ []((\E h \in Handles : hnd[h].pc # "idle") =>
              ENABLED (\/ \E h \in Handles : Poll(h) \/ Complete(h)
                       \/ WorkerRun(1, 1)))

\* C17's case: every handle has an operation with the pool at the same time.
C17_Witness ==
    /\ \A h \in Handles : hnd[h].pc = "spawned"
    /\ Len(queue[1]) = MaxHandles

\* C19: calling an operation spawns nothing and touches nothing; a task comes
\* to the pool only in the first poll of a future, so a future never polled has
\* none, and dropping it changes neither the pool's tasks nor the directory, which
\* only the run of a task changes; a future dropped with its task spawned may leave
\* the task to run.
C19_LazyDispatch ==
    /\ [](\A h \in Handles :
              /\ hnd[h].pc \in {"idle", "created", "ready"} =>
                     \A i \in 1..Len(queue[1]) : queue[1][i].h # h
              /\ hnd[h].pc = "spawned" =>
                     Cardinality({i \in 1..Len(queue[1]) : queue[1][i].h = h}) = 1
              /\ (hnd[h].pc = "spawned" /\ h # 1
                      /\ \A i \in 1..Len(queue[1]) : queue[1][i].h # 0) =>
                     ENABLED (Drop(h) /\ Len(queue'[1]) = Len(queue[1])))
    /\ [][/\ (\E h \in Handles : hnd[h].pc = "idle" /\ hnd'[h].pc # "idle") =>
                 /\ UNCHANGED <<baseKind, entries, queue>>
                 /\ sys' = NoSys
                 /\ \E h \in Handles : hnd'[h].pc = "created"
          /\ Len(queue'[1]) > Len(queue[1]) =>
                 \E h \in Handles : hnd[h].pc = "created" /\ hnd'[h].pc = "spawned"
          /\ (\E h \in Handles : hnd[h].pc = "created" /\ hnd'[h].pc = "idle") =>
                 UNCHANGED <<baseKind, entries, queue>>
          /\ entries' # entries =>
                 (Len(queue'[1]) < Len(queue[1]) /\ sys'.by = "worker")]_vars

\* C19's case: the task of an add whose future was dropped has run and made the
\* marker, with no future left.
C19_Witness ==
    /\ sys = SysCall("File::create", "worker", 0)
    /\ Marker(RaceKey) \in entries
    /\ \A h \in Handles : hnd[h].pc = "idle"

====
